---- MODULE Spec2Model ----
(***************************************************************************)
(* Model of rfm (src/src/main.rs): a CLI that installs (downloads),        *)
(* deletes or moves one path per invocation.                               *)
(*                                                                         *)
(* The dispatcher (main, validate, uninstall, move_file) is sequential.    *)
(* install spawns a Reader thread and a Writer thread that share three     *)
(* independently locked cells: buffer, finished and downloaded.            *)
(***************************************************************************)
EXTENDS Integers, Sequences, FiniteSets, TLC

\* ---------------------------------------------------------------- bounds
\* Number of non-empty chunks the response body may yield.
MaxChunks == 3
\* Largest n returned by one response.read (stands for the 8192-byte local array).
MaxChunkLen == 2
\* Longest confirmation line body (characters before the line terminator).
MaxLine == 3

\* ---------------------------------------------------------------- data
SeqsUpTo(S, n) == UNION {[1..k -> S] : k \in 0..n}

\* The values of n > 0 a read can return.
ChunkLens == 1..MaxChunkLen

\* The slice local[..n] after a read of n bytes taken at stream offset off.
\* The code never looks at the value of a byte, so each byte of the body is
\* given its position in the stream as its value: any loss, repetition or
\* reordering of bytes then shows in the result.
Chunk(off, n) == [i \in 1..n |-> off + i]

Whitespace == {" ", "\n"}
LineChars == {"n", "N", "o", "O", "y", " "}

\* What read_line can leave in the String: the bytes up to and including
\* the first newline, or fewer when end-of-input comes first.
Lines == {body \o term : body \in SeqsUpTo(LineChars, MaxLine), term \in {<<>>, <<"\n">>}}

PathKinds == {"absent", "file", "dir"}

Args == [install : BOOLEAN, delete : BOOLEAN, move_file : BOOLEAN,
         url : BOOLEAN, move_to : BOOLEAN]

\* ---------------------------------------------------------------- state
VARIABLES
  args,          \* parsed Args; url / move_to record whether the option is Some
  pathKind,      \* what args.path names on the filesystem
  destKind,      \* what args.move_to names on the filesystem
  fs0,           \* the filesystem as it was when the process started
  mpc,           \* position of main
  mainResult,    \* value returned by main
  calls,         \* which of install / uninstall / move_file / read_line were invoked
  stdinLine,     \* the line read_line stored, before normalisation
  confirmation,  \* the normalised confirmation string
  ipc,           \* position of the thread running install
  installResult, \* value returned by install
  rpc,           \* position of the Reader thread
  wpc,           \* position of the Writer thread
  readerRes,     \* result of the Reader closure
  writerRes,     \* result of the Writer closure
  local,         \* local[..n] of the last read
  nreads,        \* non-empty reads so far
  received,      \* concatenation of every chunk the response has yielded
  buffer,        \* Mutex<Vec<u8>>
  bufLock,       \* holder of the buffer mutex
  finished,      \* Mutex<bool>
  downloaded,    \* Mutex<u64>
  file,          \* bytes of the destination file
  pbPos,         \* position last given to the progress bar
  writeFailed    \* a write_all has returned an error

mainVars == <<args, pathKind, destKind, fs0, mpc, mainResult, calls, stdinLine, confirmation>>
installVars == <<ipc, installResult>>
readerVars == <<rpc, readerRes, local, nreads, received>>
writerVars == <<wpc, writerRes, file, pbPos, writeFailed>>
sharedVars == <<buffer, bufLock, finished, downloaded>>
vars == <<mainVars, installVars, readerVars, writerVars, sharedVars>>

FS == <<pathKind, destKind>>

\* ---------------------------------------------------------------- validate
ModeCount(a) ==
  (IF a.install THEN 1 ELSE 0) + (IF a.delete THEN 1 ELSE 0) + (IF a.move_file THEN 1 ELSE 0)

\* validate without the catch-all arm of the match: two modes fall through.
validateNoCatchAll(a) ==
  IF ~a.install /\ ~a.delete /\ ~a.move_file THEN "No action specified"
  ELSE IF (a.delete \/ a.move_file) /\ a.url THEN "delete/move mode does not take a URL"
  ELSE IF a.move_file /\ ~a.move_to THEN "move mode requires --move-to"
  ELSE IF a.install /\ ~a.url THEN "install mode requires a URL"
  ELSE "Ok"

\* validate without the move-mode check.
validateNoMoveTo(a) ==
  IF ~a.install /\ ~a.delete /\ ~a.move_file THEN "No action specified"
  ELSE IF ModeCount(a) # 1 THEN "Can only use one"
  ELSE IF (a.delete \/ a.move_file) /\ a.url THEN "delete/move mode does not take a URL"
  ELSE IF a.install /\ ~a.url THEN "install mode requires a URL"
  ELSE "Ok"

validate(a) ==
  CASE <<a.install, a.delete, a.move_file>> = <<FALSE, FALSE, FALSE>> -> "No action specified"
    [] <<a.install, a.delete, a.move_file>> \notin
         {<<TRUE, FALSE, FALSE>>, <<FALSE, TRUE, FALSE>>, <<FALSE, FALSE, TRUE>>,
          <<FALSE, FALSE, FALSE>>} -> "Can only use one"
    [] OTHER ->
         IF (a.delete \/ a.move_file) /\ a.url THEN "delete/move mode does not take a URL"
         ELSE IF a.move_file /\ ~a.move_to THEN "move mode requires --move-to"
         ELSE IF a.install /\ ~a.url THEN "install mode requires a URL"
         ELSE "Ok"

\* ---------------------------------------------------------------- confirmation
RECURSIVE TrimStart(_)
TrimStart(s) ==
  IF s = <<>> THEN s
  ELSE IF Head(s) \in Whitespace THEN TrimStart(Tail(s)) ELSE s

RECURSIVE TrimEnd(_)
TrimEnd(s) ==
  IF s = <<>> THEN s
  ELSE IF s[Len(s)] \in Whitespace THEN TrimEnd(SubSeq(s, 1, Len(s) - 1)) ELSE s

\* str::trim
trim(s) == TrimEnd(TrimStart(s))

LowerChar(c) == CASE c = "N" -> "n" [] c = "O" -> "o" [] OTHER -> c

\* str::to_lowercase
to_lowercase(s) == [i \in 1..Len(s) |-> LowerChar(s[i])]

\* The comparison with only the one-letter answer.
DeclinedOnlyN(c) == c = <<"n">>

\* The comparison that also takes an empty answer as a refusal.
DeclinedOrEmpty(c) == c = <<"n">> \/ c = <<"n", "o">> \/ c = <<>>

\* confirmation == "n" || confirmation == "no"
Declined(c) == c = <<"n">> \/ c = <<"n", "o">>

\* ---------------------------------------------------------------- initial state
Init ==
  /\ args \in Args
  /\ pathKind \in PathKinds
  /\ destKind \in {"absent", "file"}
  /\ fs0 = <<pathKind, destKind>>
  /\ mpc = "validate"
  /\ mainResult = "none"
  /\ calls = {}
  /\ stdinLine = <<>>
  /\ confirmation = <<>>
  /\ ipc = "idle"
  /\ installResult = "none"
  /\ rpc = "idle"
  /\ wpc = "idle"
  /\ readerRes = "none"
  /\ writerRes = "none"
  /\ local = <<>>
  /\ nreads = 0
  /\ received = <<>>
  /\ buffer = <<>>
  /\ bufLock = "none"
  /\ finished = FALSE
  /\ downloaded = 0
  /\ file = <<>>
  /\ pbPos = 0
  /\ writeFailed = FALSE

\* ---------------------------------------------------------------- main
\* main, lines 250-253 and the branch selection of 256 / 263 / 285.
M_Validate ==
  /\ mpc = "validate"
  /\ IF validate(args) # "Ok"
       THEN /\ mpc' = "done"
            /\ mainResult' = "InvalidInput"
       ELSE /\ mpc' = IF args.install THEN "install"
                      ELSE IF args.delete THEN "confirm" ELSE "move"
            /\ mainResult' = mainResult
  /\ UNCHANGED <<args, pathKind, destKind, fs0, calls, stdinLine, confirmation>>
  /\ UNCHANGED <<installVars, readerVars, writerVars, sharedVars>>

\* Delete branch up to the decision, lines 264-278.
M_Confirm ==
  /\ mpc = "confirm"
  /\ calls' = calls \cup {"read_line"}
  /\ \/ \* read_line fails and ? returns the error
        /\ mpc' = "done"
        /\ mainResult' = "StdinErr"
        /\ UNCHANGED <<stdinLine, confirmation>>
     \/ \E line \in Lines :
          /\ stdinLine' = line
          /\ confirmation' = to_lowercase(trim(line))
          /\ IF Declined(confirmation')
               THEN mpc' = "done" /\ mainResult' = "Ok"
               ELSE mpc' = "uninstall" /\ mainResult' = mainResult
  /\ UNCHANGED <<args, pathKind, destKind, fs0>>
  /\ UNCHANGED <<installVars, readerVars, writerVars, sharedVars>>

\* uninstall, lines 218-243, and main's handling of its result, 280-283, 293.
M_Uninstall ==
  /\ mpc = "uninstall"
  /\ calls' = calls \cup {"uninstall"}
  /\ mpc' = "done"
  /\ IF pathKind = "absent"
       THEN mainResult' = "NotFound" /\ pathKind' = pathKind
       ELSE \/ mainResult' = "Ok" /\ pathKind' = "absent"
            \/ mainResult' = "RemoveErr" /\ pathKind' = pathKind
  /\ UNCHANGED <<args, destKind, fs0, stdinLine, confirmation>>
  /\ UNCHANGED <<installVars, readerVars, writerVars, sharedVars>>

\* move_file, lines 72-92, and main's handling of its result, 286-293.
M_Move ==
  /\ mpc = "move"
  /\ calls' = calls \cup {"move_file"}
  /\ mpc' = "done"
  /\ \/ /\ pathKind # "absent"
        /\ mainResult' = "Ok"
        /\ destKind' = pathKind
        /\ pathKind' = "absent"
     \/ /\ mainResult' = "RenameErr"
        /\ UNCHANGED <<pathKind, destKind>>
  /\ UNCHANGED <<args, fs0, stdinLine, confirmation>>
  /\ UNCHANGED <<installVars, readerVars, writerVars, sharedVars>>

\* Install branch: the call at line 258.
M_Install ==
  /\ mpc = "install"
  /\ calls' = calls \cup {"install"}
  /\ mpc' = "inInstall"
  /\ ipc' = "get"
  /\ UNCHANGED <<args, pathKind, destKind, fs0, mainResult, stdinLine, confirmation>>
  /\ UNCHANGED <<installResult, readerVars, writerVars, sharedVars>>

\* main's handling of install's result, lines 258-261 and 293.
M_InstallReturn ==
  /\ mpc = "inInstall"
  /\ ipc = "returned"
  /\ mpc' = "done"
  /\ mainResult' = installResult
  /\ UNCHANGED <<args, pathKind, destKind, fs0, calls, stdinLine, confirmation>>
  /\ UNCHANGED <<installVars, readerVars, writerVars, sharedVars>>

\* ---------------------------------------------------------------- install
\* The process is alive, so its threads can still be scheduled.
Alive == mpc # "done"

\* get(url)?, the progress bar, the shared cells and both thread::spawn calls,
\* lines 95-200.  The two templates are literals, so with_template succeeds.
I_Spawn ==
  /\ ipc = "get"
  /\ \/ /\ ipc' = "returned"
        /\ installResult' = "GetErr"
        /\ UNCHANGED <<rpc, wpc>>
     \/ /\ ipc' = "joinReader"
        /\ installResult' = installResult
        /\ rpc' = "read"
        /\ wpc' = "create"
  /\ UNCHANGED <<mainVars, readerRes, local, nreads, received>>
  /\ UNCHANGED <<writerRes, file, pbPos, writeFailed, sharedVars>>

\* A join of the Reader that drops the Reader's result.
I_JoinReaderIgnoringErr ==
  /\ ipc = "joinReader"
  /\ rpc = "exited"
  /\ ipc' = "joinWriter"
  /\ UNCHANGED <<installResult, mainVars, readerVars, writerVars, sharedVars>>

\* reader.join().unwrap()?, line 202.
I_JoinReader ==
  /\ ipc = "joinReader"
  /\ rpc = "exited"
  /\ IF readerRes = "Err"
       THEN ipc' = "returned" /\ installResult' = "ReaderErr"
       ELSE ipc' = "joinWriter" /\ installResult' = installResult
  /\ UNCHANGED <<mainVars, readerVars, writerVars, sharedVars>>

\* writer.join().unwrap()? and the success path, lines 203-214.
I_JoinWriter ==
  /\ ipc = "joinWriter"
  /\ wpc = "exited"
  /\ ipc' = "returned"
  /\ installResult' = IF writerRes = "Err" THEN "WriterErr" ELSE "Ok"
  /\ UNCHANGED <<mainVars, readerVars, writerVars, sharedVars>>

\* ---------------------------------------------------------------- Reader thread
\* response.read(&mut local)? and the n == 0 test, lines 144-147.
R_Read ==
  /\ Alive
  /\ rpc = "read"
  /\ \/ \* the read fails: ? leaves the closure with the error
        /\ rpc' = "exited"
        /\ readerRes' = "Err"
        /\ UNCHANGED <<local, nreads, received>>
     \/ \* n == 0
        /\ rpc' = "done"
        /\ UNCHANGED <<readerRes, local, nreads, received>>
     \/ \E n \in ChunkLens :
          /\ nreads < MaxChunks
          /\ local' = Chunk(Len(received), n)
          /\ received' = received \o local'
          /\ nreads' = nreads + 1
          /\ rpc' = "append"
          /\ readerRes' = readerRes
  /\ UNCHANGED <<mainVars, installVars, writerVars, sharedVars>>

\* An append that replaces the pending bytes with the new chunk.
R_AppendOverwrite ==
  /\ Alive
  /\ rpc = "append"
  /\ bufLock = "none"
  /\ buffer' = local
  /\ rpc' = "count"
  /\ UNCHANGED <<readerRes, local, nreads, received>>
  /\ UNCHANGED <<bufLock, finished, downloaded>>
  /\ UNCHANGED <<mainVars, installVars, writerVars>>

\* shared.extend_from_slice(&local[..n]) under the buffer mutex, lines 149-152.
R_Append ==
  /\ Alive
  /\ rpc = "append"
  /\ bufLock = "none"
  /\ buffer' = buffer \o local
  /\ rpc' = "count"
  /\ UNCHANGED <<readerRes, local, nreads, received>>
  /\ UNCHANGED <<bufLock, finished, downloaded>>
  /\ UNCHANGED <<mainVars, installVars, writerVars>>

\* A counter update that stores n instead of adding it.
R_CountAssign ==
  /\ Alive
  /\ rpc = "count"
  /\ downloaded' = Len(local)
  /\ rpc' = "read"
  /\ UNCHANGED <<readerRes, local, nreads, received>>
  /\ UNCHANGED <<buffer, bufLock, finished>>
  /\ UNCHANGED <<mainVars, installVars, writerVars>>

\* *d += n as u64 under the downloaded mutex, lines 154-157.
R_Count ==
  /\ Alive
  /\ rpc = "count"
  /\ downloaded' = downloaded + Len(local)
  /\ rpc' = "read"
  /\ UNCHANGED <<readerRes, local, nreads, received>>
  /\ UNCHANGED <<buffer, bufLock, finished>>
  /\ UNCHANGED <<mainVars, installVars, writerVars>>

\* A Reader exit that returns Ok without setting the flag.
R_DoneNoFlag ==
  /\ Alive
  /\ rpc = "done"
  /\ readerRes' = "Ok"
  /\ rpc' = "exited"
  /\ UNCHANGED <<local, nreads, received>>
  /\ UNCHANGED <<buffer, bufLock, finished, downloaded>>
  /\ UNCHANGED <<mainVars, installVars, writerVars>>

\* *done = true; Ok(()), lines 160-163.
R_Done ==
  /\ Alive
  /\ rpc = "done"
  /\ finished' = TRUE
  /\ readerRes' = "Ok"
  /\ rpc' = "exited"
  /\ UNCHANGED <<local, nreads, received>>
  /\ UNCHANGED <<buffer, bufLock, downloaded>>
  /\ UNCHANGED <<mainVars, installVars, writerVars>>

\* ---------------------------------------------------------------- Writer thread
\* File::create(path_string)?, line 176.
W_Create ==
  /\ Alive
  /\ wpc = "create"
  /\ \/ /\ pathKind # "dir"
        /\ pathKind' = "file"
        /\ file' = <<>>
        /\ wpc' = "lock"
        /\ writerRes' = writerRes
     \/ /\ wpc' = "exited"
        /\ writerRes' = "Err"
        /\ UNCHANGED <<pathKind, file>>
  /\ UNCHANGED <<args, destKind, fs0, mpc, mainResult, calls, stdinLine, confirmation>>
  /\ UNCHANGED <<pbPos, writeFailed>>
  /\ UNCHANGED <<installVars, readerVars, sharedVars>>

\* buffer_writer.lock().unwrap(), line 180.
W_Lock ==
  /\ Alive
  /\ wpc = "lock"
  /\ bufLock = "none"
  /\ bufLock' = "writer"
  /\ wpc' = "drain"
  /\ UNCHANGED <<buffer, finished, downloaded>>
  /\ UNCHANGED <<writerRes, file, pbPos, writeFailed>>
  /\ UNCHANGED <<mainVars, installVars, readerVars>>

\* A drain that clears the pending bytes without writing them.
W_DrainNoWrite ==
  /\ Alive
  /\ wpc = "drain"
  /\ buffer' = <<>>
  /\ bufLock' = "none"
  /\ wpc' = "progress"
  /\ UNCHANGED <<finished, downloaded>>
  /\ UNCHANGED <<writerRes, file, pbPos, writeFailed>>
  /\ UNCHANGED <<mainVars, installVars, readerVars>>

\* A drain whose failing write leaves the buffer mutex unavailable to the
\* Reader (as a panic while the guard is held would).
W_DrainFailKeepsLock ==
  /\ Alive
  /\ wpc = "drain"
  /\ \/ /\ buffer = <<>>
        /\ bufLock' = "none"
        /\ wpc' = "progress"
        /\ UNCHANGED <<buffer, file, writerRes, writeFailed>>
     \/ /\ buffer # <<>>
        /\ bufLock' = "none"
        /\ file' = file \o buffer
        /\ buffer' = <<>>
        /\ wpc' = "progress"
        /\ UNCHANGED <<writerRes, writeFailed>>
     \/ /\ buffer # <<>>
        /\ bufLock' = "writer"
        /\ \E k \in 0..(Len(buffer) - 1) : file' = file \o SubSeq(buffer, 1, k)
        /\ writeFailed' = TRUE
        /\ writerRes' = "Err"
        /\ wpc' = "exited"
        /\ buffer' = buffer
  /\ UNCHANGED <<finished, downloaded, pbPos>>
  /\ UNCHANGED <<mainVars, installVars, readerVars>>

\* The body of the guarded block, lines 181-185: write_all then clear, both
\* with the buffer mutex held; the guard is dropped at the closing brace or
\* by ? when write_all fails, possibly after part of the bytes went out.
W_Drain ==
  /\ Alive
  /\ wpc = "drain"
  /\ bufLock' = "none"
  /\ \/ /\ buffer = <<>>
        /\ wpc' = "progress"
        /\ UNCHANGED <<buffer, file, writerRes, writeFailed>>
     \/ /\ buffer # <<>>
        /\ file' = file \o buffer
        /\ buffer' = <<>>
        /\ wpc' = "progress"
        /\ UNCHANGED <<writerRes, writeFailed>>
     \/ /\ buffer # <<>>
        /\ \E k \in 0..(Len(buffer) - 1) : file' = file \o SubSeq(buffer, 1, k)
        /\ writeFailed' = TRUE
        /\ writerRes' = "Err"
        /\ wpc' = "exited"
        /\ buffer' = buffer
  /\ UNCHANGED <<finished, downloaded, pbPos>>
  /\ UNCHANGED <<mainVars, installVars, readerVars>>

\* pb_writer.set_position(*d) under the downloaded mutex, lines 187-190.
W_Progress ==
  /\ Alive
  /\ wpc = "progress"
  /\ pbPos' = downloaded
  /\ wpc' = "check"
  /\ UNCHANGED <<writerRes, file, writeFailed>>
  /\ UNCHANGED <<mainVars, installVars, readerVars, sharedVars>>

\* An exit check that breaks after the first pass whatever the flag says.
W_CheckAlwaysBreak ==
  /\ Alive
  /\ wpc = "check"
  /\ wpc' = "exited"
  /\ writerRes' = "Ok"
  /\ UNCHANGED <<file, pbPos, writeFailed>>
  /\ UNCHANGED <<mainVars, installVars, readerVars, sharedVars>>

\* if *finished_writer.lock().unwrap() { break } ... yield_now, lines 192-199.
W_Check ==
  /\ Alive
  /\ wpc = "check"
  /\ IF finished
       THEN wpc' = "exited" /\ writerRes' = "Ok"
       ELSE wpc' = "lock" /\ writerRes' = writerRes
  /\ UNCHANGED <<file, pbPos, writeFailed>>
  /\ UNCHANGED <<mainVars, installVars, readerVars, sharedVars>>

\* ---------------------------------------------------------------- specification
Next ==
  \/ M_Validate
  \/ M_Confirm
  \/ M_Uninstall
  \/ M_Move
  \/ M_Install
  \/ M_InstallReturn
  \/ I_Spawn
  \/ I_JoinReader
  \/ I_JoinWriter
  \/ R_Read
  \/ R_Append
  \/ R_Count
  \/ R_Done
  \/ W_Create
  \/ W_Lock
  \/ W_Drain
  \/ W_Progress
  \/ W_Check

Spec == Init /\ [][Next]_vars

\* One install invocation: the arguments validate picks the install branch for.
InitInstall ==
  /\ Init
  /\ args = [install |-> TRUE, delete |-> FALSE, move_file |-> FALSE,
             url |-> TRUE, move_to |-> FALSE]
  /\ destKind = "absent"

NextInstall ==
  \/ M_Validate
  \/ M_Install
  \/ M_InstallReturn
  \/ I_Spawn
  \/ I_JoinReader
  \/ I_JoinWriter
  \/ R_Read
  \/ R_Append
  \/ R_Count
  \/ R_Done
  \/ W_Create
  \/ W_Lock
  \/ W_Drain
  \/ W_Progress
  \/ W_Check

\* The steps of each thread; at most one step of a thread is enabled at a time.
CallerStep ==
  M_Validate \/ M_Install \/ M_InstallReturn \/ I_Spawn \/ I_JoinReader \/ I_JoinWriter

ReaderStep == R_Read \/ R_Count \/ R_Done

WriterStep == W_Create \/ W_Lock \/ W_Drain \/ W_Progress \/ W_Check

\* Every thread that can run is eventually run.  The Reader blocked in
\* lock() at line 150 gets the mutex at one of the Writer's unlocks (the
\* Writer yields after each pass), hence strong fairness for the append.
Fairness ==
  /\ WF_vars(CallerStep)
  /\ WF_vars(ReaderStep)
  /\ SF_vars(R_Append)
  /\ WF_vars(WriterStep)

FairSpec == InitInstall /\ [][NextInstall]_vars /\ Fairness

TypeOK ==
  /\ args \in Args
  /\ rpc \in {"idle", "read", "append", "count", "done", "exited"}
  /\ wpc \in {"idle", "create", "lock", "drain", "progress", "check", "exited"}
  /\ bufLock \in {"none", "writer"}
  /\ downloaded \in Nat
  /\ pbPos \in Nat

\* ---------------------------------------------------------------- properties
\* The chunks the Reader has appended to the buffer so far: everything read,
\* less the chunk still sitting in local.
Appended ==
  IF rpc = "append" THEN SubSeq(received, 1, Len(received) - Len(local)) ELSE received

\* C1: whenever install reports success, the destination file holds exactly
\* the concatenation of the chunks the Reader received.
C1_Completeness ==
  installResult = "Ok" => file = received

\* C2: while no disk write has failed, the bytes in the file followed by the
\* bytes pending in the buffer are exactly the chunks appended so far.
C2_NoLossInBuffer ==
  ~writeFailed => file \o buffer = Appended

\* C2 case: bytes were drained to the file and a later chunk is pending.
C2_DrainedAndPending ==
  /\ ~writeFailed
  /\ file # <<>>
  /\ buffer # <<>>
  /\ nreads = MaxChunks

\* C3: once the Reader has exited, by end of stream or by a failed read,
\* the finished flag is set.
C3_ReaderExitSetsDone ==
  rpc = "exited" => finished

\* C4: when a read fails after the source yielded k bytes, install returns
\* the Reader's error and the file then holds exactly those k bytes.
C4_MidStreamFailure ==
  (readerRes = "Err" /\ ipc = "returned") =>
    (installResult = "ReaderErr" /\ file = received)

\* C5: neither the position given to the progress bar nor the downloaded
\* counter ever decreases.
C5_ProgressMonotonic ==
  [][pbPos' >= pbPos /\ downloaded' >= downloaded]_vars

\* C5 case: the Writer has reported a positive position and the counter has
\* since moved past it.
C5_ReportedThenAdvanced ==
  /\ pbPos > 0
  /\ downloaded > pbPos

\* C6: on success the last position the Writer gave to the progress bar is
\* the total number of bytes received.
C6_FinalProgress ==
  installResult = "Ok" => pbPos = Len(received)

\* validate has been applied and returned Ok.
ValidatedOk == mpc # "validate" /\ mainResult # "InvalidInput"

\* C7 as stated: validate returns Ok exactly when one mode is set, url is
\* present iff install, and move_to is present iff move.
C7_ValidateExact ==
  mpc # "validate" =>
    (ValidatedOk <=> /\ ModeCount(args) = 1
                     /\ (args.url <=> args.install)
                     /\ (args.move_to <=> args.move_file))

\* C7 amended: validate returns Ok exactly when one mode is set, url is
\* present iff install, and move_to is present if the mode is move.
C7_ValidateAmended ==
  mpc # "validate" =>
    (ValidatedOk <=> /\ ModeCount(args) = 1
                     /\ (args.url <=> args.install)
                     /\ (args.move_file => args.move_to))

\* C7 case: a move_to given outside move mode has passed validate.
C7_StrayMoveToAccepted ==
  /\ ValidatedOk
  /\ args.move_to
  /\ ~args.move_file

\* C8: with no mode or several modes selected, main only validates and ends
\* with the validation error: nothing is called and the filesystem is untouched.
C8_ModeExclusivity ==
  ModeCount(args) # 1 =>
    /\ mpc \in {"validate", "done"}
    /\ mpc = "done" => mainResult = "InvalidInput"
    /\ calls = {}
    /\ FS = fs0
    /\ ipc = "idle" /\ rpc = "idle" /\ wpc = "idle"

\* C8 case: main has ended on an invocation with two or more modes.
C8_RejectedMultiMode ==
  /\ mpc = "done"
  /\ ModeCount(args) >= 2

\* The answers the claim calls a refusal: n or no in any letter case,
\* surrounded by any amount of whitespace.
Refusals ==
  {<<"n">>, <<"N">>, <<"n", "o">>, <<"n", "O">>, <<"N", "o">>, <<"N", "O">>}

IsRefusal(l) ==
  \E i \in 1..Len(l) : \E j \in i..Len(l) :
    /\ SubSeq(l, i, j) \in Refusals
    /\ \A k \in 1..(i - 1) : l[k] \in Whitespace
    /\ \A k \in (j + 1)..Len(l) : l[k] \in Whitespace

\* The confirmation line has been read.
LineRead == "read_line" \in calls /\ mainResult # "StdinErr"

\* C9: in delete mode, after a refusal is read, main ends with Ok, uninstall
\* is not called and the filesystem is as it was.
C9_DeleteDeclined ==
  (LineRead /\ IsRefusal(stdinLine)) =>
    /\ mpc = "done"
    /\ mainResult = "Ok"
    /\ "uninstall" \notin calls
    /\ FS = fs0

\* C9 case: a padded upper-case "NO" line was read on an existing path.
C9_DeclinedWithNO ==
  /\ LineRead
  /\ stdinLine = <<" ", "N", "O", "\n">>
  /\ pathKind # "absent"

\* C10: the error install returns is the Reader's whenever the Reader failed,
\* and the Writer's when only the Writer failed.
C10_ErrorPrecedence ==
  (ipc = "returned" /\ installResult # "GetErr") =>
    /\ readerRes = "Err" => installResult = "ReaderErr"
    /\ (readerRes = "Ok" /\ writerRes = "Err") => installResult = "WriterErr"
    /\ installResult = "ReaderErr" => readerRes = "Err"
    /\ installResult = "WriterErr" => (writerRes = "Err" /\ readerRes = "Ok")
    /\ installResult = "Ok" => (readerRes = "Ok" /\ writerRes = "Ok")

\* C10 case: install has returned after both workers failed.
C10_BothFailed ==
  /\ ipc = "returned"
  /\ readerRes = "Err"
  /\ writerRes = "Err"

\* C11: whenever the Writer has left its loop normally, no bytes remain
\* pending in the shared buffer.
C11_WriterExitsOnEmptyBuffer ==
  writerRes = "Ok" => buffer = <<>>

\* The Writer is inside file.write_all: it is at the guarded block with
\* bytes to write.
InDiskWrite == wpc = "drain" /\ buffer # <<>>

\* C12: no worker holds the buffer mutex while it is in a disk write or a
\* network read, so during a disk write the Reader can still take the mutex.
C12_NoLockAcrossIO ==
  /\ InDiskWrite => bufLock # "writer"
  /\ rpc = "read" => bufLock # "reader"

\* C13: at every point where the Writer reads shared state, and while no
\* write has failed, the counter equals the bytes written plus the bytes pending.
C13_CounterMatchesBytes ==
  (wpc \in {"drain", "progress", "check"} /\ ~writeFailed) =>
    downloaded = Len(file) + Len(buffer)

\* C14: install has returned only if neither worker is still running.
C14_ReturnsAfterBothExit ==
  ipc = "returned" =>
    /\ rpc \in {"idle", "exited"}
    /\ wpc \in {"idle", "exited"}

\* s is an initial segment of t.
IsPrefix(s, t) == Len(s) <= Len(t) /\ SubSeq(t, 1, Len(s)) = s

\* C16: a Writer step leaves downloaded and finished alone and adds nothing
\* to the buffer; a Reader step removes nothing from the buffer; finished,
\* once true, stays true.
C16_SingleWriterOwnership ==
  [][/\ wpc' # wpc => /\ downloaded' = downloaded
                      /\ finished' = finished
                      /\ buffer' \in {buffer, <<>>}
     /\ rpc' # rpc => IsPrefix(buffer, buffer')
     /\ finished => finished']_vars

\* C16 case: the Writer has drained bytes, the Reader has appended more
\* behind them and has set the flag.
C16_BothWorkersActed ==
  /\ file # <<>>
  /\ buffer # <<>>
  /\ finished

\* The Reader has had a read return 0 bytes.
EndOfStreamSeen == rpc = "done" \/ (rpc = "exited" /\ readerRes = "Ok")

\* C17: the Writer returns Ok only with the flag set, the flag is set only
\* after a read returned 0, and install reports success only when the stream
\* ended without a failed read.
C17_SuccessImpliesFullyRead ==
  /\ writerRes = "Ok" => finished
  /\ finished => (EndOfStreamSeen /\ rpc = "exited")
  /\ installResult = "Ok" => (finished /\ readerRes = "Ok" /\ EndOfStreamSeen)

\* C17 case: install has reported success on a stream that carried bytes.
C17_SucceededWithBytes ==
  /\ installResult = "Ok"
  /\ received # <<>>

Faulted == installResult = "GetErr" \/ readerRes = "Err" \/ writerRes = "Err"

\* C15: under fair scheduling a started transfer in which nothing fails
\* ends with install returning success.
C15_FaultFreeTermination ==
  (ipc = "get") ~> (Faulted \/ (installResult = "Ok" /\ finished /\ wpc = "exited"))

\* C15 case: a transfer of the largest stream has returned success.
C15_FullTransferSucceeded ==
  /\ installResult = "Ok"
  /\ nreads = MaxChunks
  /\ ~Faulted

\* C18: after the Writer has failed, the file and the Writer's result stay
\* as they are and the only change to the buffer is the Reader appending its
\* chunk; install returns the Writer's error only after the Reader ended the
\* stream with Ok, returns the Reader's error if a read failed, and, under
\* fair scheduling, does return.
C18_WriterFailureLeavesReaderRunning ==
  /\ [][writerRes = "Err" =>
          /\ writerRes' = "Err"
          /\ file' = file
          /\ buffer' = IF rpc = "append" /\ rpc' = "count" THEN buffer \o local ELSE buffer]_vars
  /\ [](installResult = "WriterErr" =>
          (rpc = "exited" /\ readerRes = "Ok" /\ finished /\ writerRes = "Err"))
  /\ []((writerRes = "Err" /\ ipc = "returned") =>
          installResult = (IF readerRes = "Err" THEN "ReaderErr" ELSE "WriterErr"))
  /\ (writerRes = "Err") ~> (ipc = "returned")

\* C18 case: File::create failed, the Reader still appended the whole stream
\* and install then returned the Writer's error.
C18_ReaderRanOnAfterWriterFailed ==
  /\ installResult = "WriterErr"
  /\ ~writeFailed
  /\ nreads = MaxChunks
  /\ buffer = received
  /\ file = <<>>

====
